---- MODULE Spec2Model ----
(***************************************************************************)
(* Model of domdf_python_tools.pagesizes.classes: the BaseSize family of   *)
(* immutable (width, height) named tuples, their orientation queries and   *)
(* their conversions through the point.                                    *)
(*                                                                         *)
(* Sizes live in a heap (a sequence of objects, the index is the object's  *)
(* identity) so that "returns self" and "constructs a new instance" are    *)
(* different outcomes.  Numbers are binary floating point values with a    *)
(* MantBits-bit mantissa, rounded to nearest-even after every              *)
(* multiplication and division, as Python floats are.                      *)
(*                                                                         *)
(* The other modules of the package follow, each with the part of the      *)
(* state it works on and its own specification: terminal (term), versions  *)
(* (ver), and the path functions as the tests of the package use them      *)
(* (fs).                                                                   *)
(***************************************************************************)
EXTENDS Integers, Sequences, FiniteSets, TLC

\* Bounds of the model.
MaxInput == 3
MantBits == 4
MaxHeap == 3
MaxAll == 2

VARIABLES inp, heap, last, cap, term, ver, fs

vars == <<inp, heap, last, cap, term, ver, fs>>

(***************************************************************************)
(* Floating point numbers: <<m, e>> stands for m * 2^e, with m = 0 (and    *)
(* e = 0) or 2^(MantBits-1) <= m < 2^MantBits.  Only values >= 0 occur.    *)
(***************************************************************************)
RECURSIVE Pow2(_)
Pow2(n) == IF n = 0 THEN 1 ELSE 2 * Pow2(n - 1)

FZero == <<0, 0>>

\* The float nearest to (a / b) * 2^e, ties to the even mantissa.
RECURSIVE Norm(_, _, _)
Norm(a, b, e) ==
    IF a = 0 THEN FZero
    ELSE IF a >= Pow2(MantBits) * b THEN Norm(a, 2 * b, e + 1)
    ELSE IF a < Pow2(MantBits - 1) * b THEN Norm(2 * a, b, e - 1)
    ELSE LET q == a \div b
             r == a % b
             m == IF 2 * r > b \/ (2 * r = b /\ q % 2 = 1) THEN q + 1 ELSE q
         IN  IF m = Pow2(MantBits) THEN <<Pow2(MantBits - 1), e + 1>> ELSE <<m, e>>

FromInt(k) == Norm(k, 1, 0)

\* x * (n / d) and x / (n / d), each rounded once.
FMul(x, n, d) == Norm(x[1] * n, d, x[2])
FDiv(x, n, d) == Norm(x[1] * d, n, x[2])

FLess(x, y) ==
    IF y[1] = 0 THEN FALSE
    ELSE IF x[1] = 0 THEN TRUE
    ELSE x[2] < y[2] \/ (x[2] = y[2] /\ x[1] < y[1])

FLeq(x, y) == x = y \/ FLess(x, y)

\* x and y measured in units of 2^lo, where lo is below both exponents.
Scaled(x, lo) == x[1] * Pow2(x[2] - lo)

\* y is within one unit in the last place of x.
WithinUlp(x, y) ==
    IF x[1] = 0 THEN y[1] = 0
    ELSE /\ y[1] # 0
         /\ y[2] \in {x[2] - 1, x[2], x[2] + 1}
         /\ LET a == Scaled(x, x[2] - 1)
                b == Scaled(y, x[2] - 1)
            IN  (IF a >= b THEN a - b ELSE b - a) <= 2

(***************************************************************************)
(* Units.  A Unit value is a number tagged with its unit; the unit fixes   *)
(* the ratio (points per unit), held as a fraction <<n, d>>.               *)
(***************************************************************************)
UnitNames == {"mm", "inch", "cm", "um", "pica", "didot", "cicero",
              "new_didot", "new_cicero", "scaled_point"}

Ratio(u) ==
    CASE u = "pt" -> <<1, 1>>
      [] u = "inch" -> <<72, 1>>
      [] u = "cm" -> <<3600, 127>>
      [] u = "mm" -> <<360, 127>>
      [] u = "um" -> <<9, 3175>>
      [] u = "pica" -> <<12, 1>>
      [] u = "didot" -> <<1238, 1157>>
      [] u = "cicero" -> <<14856, 1157>>
      [] u = "new_didot" -> <<135, 127>>
      [] u = "new_cicero" -> <<1620, 127>>
      [] u = "scaled_point" -> <<1, 65536>>

\* Unit.__call__ / Unit(value): stores the number verbatim under the unit.
Unit(u, x) == [unit |-> u, val |-> x]

\* Unit.as_pt: the value in points.
as_pt(v) == FMul(v.val, Ratio(v.unit)[1], Ratio(v.unit)[2])

\* Unit.from_pt: a number of points expressed in unit u.
unit_from_pt(u, x) == FDiv(x, Ratio(u)[1], Ratio(u)[2])

\* Unit equality and ordering are those of the numbers.
UnitEq(v, w) == v.val = w.val
UnitLess(v, w) == FLess(v.val, w.val)
UnitGeq(v, w) == FLeq(w.val, v.val)

\* utils.convert_from: a pair of numbers in the given unit, in points.
convert_from(w, h, u) ==
    <<FMul(w, Ratio(u)[1], Ratio(u)[2]), FMul(h, Ratio(u)[1], Ratio(u)[2])>>

(***************************************************************************)
(* The size classes.                                                       *)
(***************************************************************************)
SizeClass(u) ==
    CASE u = "mm" -> "Size_mm"
      [] u = "inch" -> "Size_inch"
      [] u = "cm" -> "Size_cm"
      [] u = "um" -> "Size_um"
      [] u = "pica" -> "Size_pica"
      [] u = "didot" -> "Size_didot"
      [] u = "cicero" -> "Size_cicero"
      [] u = "new_didot" -> "Size_new_didot"
      [] u = "new_cicero" -> "Size_new_cicero"
      [] u = "scaled_point" -> "Size_scaled_point"

UnitClasses == {SizeClass(u) : u \in UnitNames}
AllClasses == {"BaseSize", "PageSize"} \cup UnitClasses

\* cls._unit
UnitOf(cls) ==
    IF cls \in {"BaseSize", "PageSize"} THEN "pt"
    ELSE CHOOSE u \in UnitNames : SizeClass(u) = cls

(***************************************************************************)
(* Size objects.  cls is the object's class; width and height are Unit     *)
(* values.  by and src record which call constructed the object and from   *)
(* which receiver (history only: no operation reads them).                 *)
(***************************************************************************)

\* BaseSize.__new__(cls, width, height)
BaseSize_new(cls, w, h) ==
    [cls |-> cls, width |-> Unit(UnitOf(cls), w), height |-> Unit(UnitOf(cls), h)]

\* Variant: the unit argument is ignored.
PageSize_new_no_unit(w, h, u) == BaseSize_new("PageSize", w, h)

\* PageSize.__new__(cls, width, height, unit)
PageSize_new(w, h, u) ==
    LET c == convert_from(w, h, u)
    IN  BaseSize_new("PageSize", c[1], c[2])

\* cls(width, height): PageSize overrides __new__, the other classes inherit it.
Construct(cls, w, h) ==
    IF cls = "PageSize" THEN PageSize_new(w, h, "pt") ELSE BaseSize_new(cls, w, h)

\* Variant: a strict comparison.
is_landscape_strict(s) == UnitLess(s.height, s.width)

\* BaseSize.is_landscape
is_landscape(s) == UnitGeq(s.width, s.height)

\* BaseSize.is_portrait
is_portrait(s) == UnitLess(s.width, s.height)

\* BaseSize.is_square
is_square(s) == UnitEq(s.width, s.height)

\* Variant: the fields are compared as points.
SizeEq_in_pt(s, t) == as_pt(s.width) = as_pt(t.width) /\ as_pt(s.height) = as_pt(t.height)

\* Tuple equality of two sizes: element by element, the class plays no part.
SizeEq(s, t) == UnitEq(s.width, t.width) /\ UnitEq(s.height, t.height)

\* Variant: the fields are not swapped.
landscape_made_unswapped(s) == Construct(s.cls, s.width.val, s.height.val)

\* The object returned by s.landscape() when it constructs one.
landscape_made(s) == Construct(s.cls, s.height.val, s.width.val)

\* Variant: no orientation test, the fields are always swapped.
landscape_constructs_always(s) == TRUE

\* s.landscape() constructs an instance (otherwise it returns s).
landscape_constructs(s) == is_portrait(s)

\* The object returned by s.portrait() when it constructs one.
portrait_made(s) == Construct(s.cls, s.height.val, s.width.val)

\* Variant: squares are left alone.
portrait_constructs_strict(s) == UnitLess(s.height, s.width)

\* s.portrait() constructs an instance (otherwise it returns s).
portrait_constructs(s) == is_landscape(s)

\* Variant: the fields are taken as points without conversion.
to_pt_made_unconverted(s) == PageSize_new(s.width.val, s.height.val, "pt")

\* BaseSize.to_pt
to_pt_made(s) == PageSize_new(as_pt(s.width), as_pt(s.height), "pt")

\* isinstance(size, PageSize), the assertion of BaseSize.from_pt
\* Variant: the assertion is isinstance(size, BaseSize).
from_pt_accepts_BaseSize(s) == s.cls # "tuple"

from_pt_accepts(s) == s.cls = "PageSize"

\* Variant: the fields are multiplied by the ratio instead of divided.
from_pt_made_times(cls, s) ==
    Construct(cls, as_pt(Unit(UnitOf(cls), s.width.val)),
                   as_pt(Unit(UnitOf(cls), s.height.val)))

\* BaseSize.from_pt(cls, size), past the assertion
from_pt_made(cls, s) ==
    Construct(cls, unit_from_pt(UnitOf(cls), s.width.val),
                   unit_from_pt(UnitOf(cls), s.height.val))

\* BaseSize.from_size(cls, size)
from_size_made(cls, s) == Construct(cls, s.width.val, s.height.val)

\* Variant: the point values are wrapped in the unit without conversion.
accessor_made_unconverted(u, s) == Construct(SizeClass(u), s.width.val, s.height.val)

\* The unit accessor properties of PageSize (inch, cm, mm, um, pc, dd, cc, nd, nc, sp).
accessor_made(u, s) == from_pt_made(SizeClass(u), s)

(***************************************************************************)
(* State.  inp: the numbers and the unit type a run works with.  heap: the *)
(* sizes constructed so far.  last: the most recent call and its outcome.  *)
(* cap: the number of sizes a run may construct.                           *)
(***************************************************************************)
Inputs == 1 .. MaxInput

Classes == {"BaseSize", "PageSize", SizeClass(inp.unit)}

Stored(obj, op, i) ==
    [cls |-> obj.cls, width |-> obj.width, height |-> obj.height, by |-> op, src |-> i]

\* The record of a call: the operation, the class it was called on, the unit
\* argument, the receiver, the other operand, the object returned, whether it
\* was constructed by the call, the boolean returned, whether the call raised.
Call(op, cls, recv, arg, res, new, val, err) ==
    [op |-> op, cls |-> cls, unit |-> "-", recv |-> recv, arg |-> arg, res |-> res,
     new |-> new, val |-> val, err |-> err]

NoCall ==
    [op |-> "none", cls |-> "-", unit |-> "-", recv |-> 0, arg |-> 0, res |-> 0, new |-> FALSE,
     val |-> FALSE, err |-> FALSE]

\* No call is in progress: the caller has taken the result of the last one.
Idle == last = NoCall

\* A call that constructs obj and returns it.
Returns_new(op, cls, recv, obj) ==
    /\ Idle
    /\ Len(heap) < cap
    /\ heap' = Append(heap, Stored(obj, op, recv))
    /\ last' = Call(op, cls, recv, 0, Len(heap) + 1, TRUE, FALSE, FALSE)

\* A call that returns the existing object res.
Returns_old(op, cls, recv, res) ==
    /\ Idle
    /\ heap' = heap
    /\ last' = Call(op, cls, recv, 0, res, FALSE, FALSE, FALSE)

\* A call that returns the boolean val.
Returns_bool(op, recv, arg, val) ==
    /\ Idle
    /\ heap' = heap
    /\ last' = Call(op, heap[recv].cls, recv, arg, 0, FALSE, val, FALSE)

\* The terminal, the version and the file system parts of the state while the
\* page sizes are at work: nothing has been called there.
NoTerm == [op |-> "none"]
NoVer == [op |-> "none"]
NoFs == [op |-> "none"]

BaseInit ==
    /\ inp \in [unit : UnitNames, w : Inputs, h : Inputs]
    /\ heap = <<>>
    /\ last = NoCall
    /\ term = NoTerm
    /\ ver = NoVer
    /\ fs = NoFs

\* U(w, h) for BaseSize and the unit classes.
New(cls) ==
    /\ cls \in Classes \ {"PageSize"}
    /\ Returns_new("new", cls, 0, BaseSize_new(cls, FromInt(inp.w), FromInt(inp.h)))
    /\ UNCHANGED <<inp, cap, term, ver, fs>>

\* PageSize(w, h) and PageSize(w, h, unit).
NewPageSize(u) ==
    /\ u \in {"pt", inp.unit}
    /\ Idle
    /\ Len(heap) < cap
    /\ heap' = Append(heap, Stored(PageSize_new(FromInt(inp.w), FromInt(inp.h), u), "new", 0))
    /\ last' = [Call("new", "PageSize", 0, 0, Len(heap) + 1, TRUE, FALSE, FALSE)
                   EXCEPT !.unit = u]
    /\ UNCHANGED <<inp, cap, term, ver, fs>>

IsLandscape(i) ==
    /\ i \in DOMAIN heap
    /\ Returns_bool("is_landscape", i, 0, is_landscape(heap[i]))
    /\ UNCHANGED <<inp, cap, term, ver, fs>>

IsPortrait(i) ==
    /\ i \in DOMAIN heap
    /\ Returns_bool("is_portrait", i, 0, is_portrait(heap[i]))
    /\ UNCHANGED <<inp, cap, term, ver, fs>>

IsSquare(i) ==
    /\ i \in DOMAIN heap
    /\ Returns_bool("is_square", i, 0, is_square(heap[i]))
    /\ UNCHANGED <<inp, cap, term, ver, fs>>

\* s == t
Eq(i, j) ==
    /\ i \in DOMAIN heap
    /\ j \in DOMAIN heap
    /\ i # j
    /\ Returns_bool("eq", i, j, SizeEq(heap[i], heap[j]))
    /\ UNCHANGED <<inp, cap, term, ver, fs>>

\* Variant: the receiver's fields are swapped in place.
landscape_in_place(i) ==
    /\ i \in DOMAIN heap
    /\ Idle
    /\ heap' = [heap EXCEPT ![i].width = heap[i].height, ![i].height = heap[i].width]
    /\ last' = Call("landscape", heap[i].cls, i, 0, i, FALSE, FALSE, FALSE)
    /\ UNCHANGED <<inp, cap, term, ver, fs>>

\* BaseSize.landscape
landscape(i) ==
    /\ i \in DOMAIN heap
    /\ IF landscape_constructs(heap[i])
       THEN Returns_new("landscape", heap[i].cls, i, landscape_made(heap[i]))
       ELSE Returns_old("landscape", heap[i].cls, i, i)
    /\ UNCHANGED <<inp, cap, term, ver, fs>>

\* BaseSize.portrait
portrait(i) ==
    /\ i \in DOMAIN heap
    /\ IF portrait_constructs(heap[i])
       THEN Returns_new("portrait", heap[i].cls, i, portrait_made(heap[i]))
       ELSE Returns_old("portrait", heap[i].cls, i, i)
    /\ UNCHANGED <<inp, cap, term, ver, fs>>

\* BaseSize.to_pt
to_pt(i) ==
    /\ i \in DOMAIN heap
    /\ Returns_new("to_pt", heap[i].cls, i, to_pt_made(heap[i]))
    /\ UNCHANGED <<inp, cap, term, ver, fs>>

\* BaseSize.from_pt: cls.from_pt(size)
from_pt(cls, i) ==
    /\ cls \in Classes
    /\ i \in DOMAIN heap
    /\ IF from_pt_accepts(heap[i])
       THEN Returns_new("from_pt", cls, i, from_pt_made(cls, heap[i]))
       ELSE /\ Idle
            /\ heap' = heap
            /\ last' = Call("from_pt", cls, i, 0, 0, FALSE, FALSE, TRUE)
    /\ UNCHANGED <<inp, cap, term, ver, fs>>

\* BaseSize.from_size: cls.from_size(size)
from_size(cls, i) ==
    /\ cls \in Classes
    /\ i \in DOMAIN heap
    /\ Returns_new("from_size", cls, i, from_size_made(cls, heap[i]))
    /\ UNCHANGED <<inp, cap, term, ver, fs>>

\* p.inch, p.cm, ...: the accessor of the run's unit, on a PageSize.
accessor(i) ==
    /\ i \in DOMAIN heap
    /\ heap[i].cls = "PageSize"
    /\ Returns_new("accessor", SizeClass(inp.unit), i, accessor_made(inp.unit, heap[i]))
    /\ UNCHANGED <<inp, cap, term, ver, fs>>

(***************************************************************************)
(* The caller takes the result of a call; the next call can be made.       *)
(***************************************************************************)
Return ==
    /\ ~Idle
    /\ last' = NoCall
    /\ UNCHANGED <<inp, heap, cap, term, ver, fs>>

(***************************************************************************)
(* Specifications.  In Spec, SpecConv and SpecAll a run constructs one     *)
(* size from its inputs and works on it and on the sizes made from it.     *)
(* Spec: orientation.  SpecConv: the conversions through the point.        *)
(* SpecAll: every operation, on runs of MaxAll sizes.  SpecEq: equality of *)
(* sizes constructed from the same inputs, on runs of MaxAll sizes.        *)
(***************************************************************************)
Init == BaseInit /\ cap = MaxHeap

Next ==
    \/ heap = <<>> /\ \E cls \in AllClasses : New(cls)
    \/ heap = <<>> /\ \E u \in UnitNames \cup {"pt"} : NewPageSize(u)
    \/ Idle /\ \E i \in 1 .. MaxHeap + 1 : IsLandscape(i)
    \/ Idle /\ \E i \in 1 .. MaxHeap + 1 : IsPortrait(i)
    \/ Idle /\ \E i \in 1 .. MaxHeap + 1 : IsSquare(i)
    \/ Idle /\ \E i \in 1 .. MaxHeap + 1 : landscape(i)
    \/ Idle /\ \E i \in 1 .. MaxHeap + 1 : portrait(i)
    \/ Return

Spec == Init /\ [][Next]_vars

NextConv ==
    \/ heap = <<>> /\ \E cls \in AllClasses : New(cls)
    \/ heap = <<>> /\ \E u \in UnitNames \cup {"pt"} : NewPageSize(u)
    \/ Idle /\ \E i \in 1 .. MaxHeap + 1 : to_pt(i)
    \/ Idle /\ \E cls \in AllClasses, i \in 1 .. MaxHeap + 1 : from_pt(cls, i)
    \/ Idle /\ \E i \in 1 .. MaxHeap + 1 : accessor(i)
    \/ Return

SpecConv == Init /\ [][NextConv]_vars

InitAll == BaseInit /\ cap = MaxAll

NextAll ==
    \/ heap = <<>> /\ \E cls \in AllClasses : New(cls)
    \/ heap = <<>> /\ \E u \in UnitNames \cup {"pt"} : NewPageSize(u)
    \/ Idle /\ \E i \in 1 .. MaxAll + 1 : IsLandscape(i)
    \/ Idle /\ \E i \in 1 .. MaxAll + 1 : IsPortrait(i)
    \/ Idle /\ \E i \in 1 .. MaxAll + 1 : IsSquare(i)
    \/ Idle /\ \E i, j \in 1 .. MaxAll + 1 : Eq(i, j)
    \/ Idle /\ \E i \in 1 .. MaxAll + 1 : landscape(i)
    \/ Idle /\ \E i \in 1 .. MaxAll + 1 : portrait(i)
    \/ Idle /\ \E i \in 1 .. MaxAll + 1 : to_pt(i)
    \/ Idle /\ \E cls \in AllClasses, i \in 1 .. MaxAll + 1 : from_pt(cls, i)
    \/ Idle /\ \E i \in 1 .. MaxAll + 1 : accessor(i)
    \/ Idle /\ \E cls \in AllClasses, i \in 1 .. MaxAll + 1 : from_size(cls, i)
    \/ Return

SpecAll == InitAll /\ [][NextAll]_vars

NextEq ==
    \/ \E cls \in AllClasses : New(cls)
    \/ \E u \in UnitNames \cup {"pt"} : NewPageSize(u)
    \/ \E i, j \in 1 .. MaxAll + 1 : Eq(i, j)
    \/ Return

SpecEq == InitAll /\ [][NextEq]_vars

(***************************************************************************)
(* Properties.                                                             *)
(***************************************************************************)

\* The order of two numbers, by their values as integers on a common scale.
NumLess(x, y) ==
    LET lo == IF x[2] < y[2] THEN x[2] ELSE y[2]
    IN  Scaled(x, lo) < Scaled(y, lo)

NumLeq(x, y) == ~NumLess(y, x)

W(s) == s.width.val
H(s) == s.height.val

\* The receiver and the result of the last call.
Recv == heap[last.recv]
Res == heap[last.res]

\* C1: for every size exactly one of is_landscape and is_portrait is true; a
\* square size is landscape and not portrait; is_landscape is true iff
\* width >= height and is_portrait iff width < height.
C1_Orientation ==
    /\ \A i \in DOMAIN heap :
          LET s == heap[i]
          IN  /\ is_landscape(s) # is_portrait(s)
              /\ is_square(s) => (is_landscape(s) /\ ~is_portrait(s))
              /\ is_landscape(s) <=> NumLeq(H(s), W(s))
              /\ is_portrait(s) <=> NumLess(W(s), H(s))
              /\ is_square(s) <=> (~NumLess(W(s), H(s)) /\ ~NumLess(H(s), W(s)))
    /\ last.op = "is_landscape" => (last.val <=> NumLeq(H(Recv), W(Recv)))
    /\ last.op = "is_portrait" => (last.val <=> NumLess(W(Recv), H(Recv)))

\* A square size of a unit class answered is_landscape with true.
C1_Witness ==
    /\ last.op = "is_landscape"
    /\ last.val
    /\ W(Recv) = H(Recv)
    /\ Recv.cls \in UnitClasses

\* C2: landscape() returns the receiver itself when width >= height, and
\* otherwise a new size of the same class with width and height swapped; the
\* result always has width >= height.
C2_Landscape ==
    last.op = "landscape" =>
        /\ NumLeq(H(Recv), W(Recv)) => (last.res = last.recv /\ ~last.new)
        /\ NumLess(W(Recv), H(Recv)) =>
              /\ last.new
              /\ last.res # last.recv
              /\ Res.cls = Recv.cls
              /\ W(Res) = H(Recv)
              /\ H(Res) = W(Recv)
        /\ NumLeq(H(Res), W(Res))

\* landscape() on a size (1, 2) constructed the size (2, 1).
C2_Witness ==
    /\ last.op = "landscape"
    /\ last.new
    /\ W(Recv) = FromInt(1)
    /\ H(Recv) = FromInt(2)
    /\ W(Res) = FromInt(2)
    /\ H(Res) = FromInt(1)

\* C3, as claimed: portrait() returns the receiver itself, constructing nothing,
\* whenever width <= height, and constructs a swapped size only when
\* width > height.
C3_Original ==
    last.op = "portrait" =>
        /\ NumLeq(W(Recv), H(Recv)) => (last.res = last.recv /\ ~last.new)
        /\ NumLess(H(Recv), W(Recv)) => last.new

\* C3, amended: portrait() returns the receiver itself, constructing nothing,
\* only when width < height; when width >= height, a square included, it
\* constructs a new size of the same class with width and height swapped (for a
\* square the new size equals the receiver).
C3_Portrait ==
    last.op = "portrait" =>
        /\ NumLess(W(Recv), H(Recv)) => (last.res = last.recv /\ ~last.new)
        /\ NumLeq(H(Recv), W(Recv)) =>
              /\ last.new
              /\ last.res # last.recv
              /\ last.res = Len(heap)
              /\ Res.cls = Recv.cls
              /\ W(Res) = H(Recv)
              /\ H(Res) = W(Recv)
        /\ W(Recv) = H(Recv) => SizeEq(Res, Recv)

\* portrait() on a square size constructed a new size.
C3_Witness ==
    /\ last.op = "portrait"
    /\ W(Recv) = H(Recv)
    /\ last.new
    /\ last.res # last.recv

\* The size that landscape() and portrait() return for s.
landscape_of(s) == IF landscape_constructs(s) THEN landscape_made(s) ELSE s
portrait_of(s) == IF portrait_constructs(s) THEN portrait_made(s) ELSE s

\* C4: landscape and portrait are idempotent: called on a size that the same
\* operation constructed, each returns a size equal to it; and for every size
\* s, the operation applied to what it returns for s returns an equal size.
C4_Idempotent ==
    /\ \A op \in {"landscape", "portrait"} :
          (last.op = op /\ Recv.by = op) => SizeEq(Res, Recv)
    /\ \A i \in DOMAIN heap :
          /\ SizeEq(landscape_of(landscape_of(heap[i])), landscape_of(heap[i]))
          /\ SizeEq(portrait_of(portrait_of(heap[i])), portrait_of(heap[i]))

\* portrait() was called on the size that portrait() made of a square size of a
\* unit class, and constructed a third size.
C4_Witness ==
    /\ last.op = "portrait"
    /\ Recv.by = "portrait"
    /\ W(heap[Recv.src]) = H(heap[Recv.src])
    /\ Recv.cls \in UnitClasses
    /\ last.new

\* y is a float nearest to x * n / d.
NearestTo(y, x, n, d) ==
    IF x[1] = 0 \/ y[1] = 0 THEN x[1] = 0 /\ y[1] = 0
    ELSE LET lo == IF x[2] < y[2] THEN x[2] ELSE y[2]
             a == y[1] * d * Pow2(y[2] - lo)
             b == x[1] * n * Pow2(x[2] - lo)
         IN  2 * (IF a >= b THEN a - b ELSE b - a) <= d * Pow2(y[2] - lo)

RatioN(u) == Ratio(u)[1]
RatioD(u) == Ratio(u)[2]

\* C5: round trip: for a size s of a unit class U, to_pt multiplies each field by
\* U's ratio, U.from_pt divides by the same ratio, and U.from_pt(s.to_pt()) is a
\* U whose fields are those of s up to rounding (one unit in the last place).
C5_RoundTrip ==
    (/\ last.op = "from_pt"
     /\ ~last.err
     /\ Recv.by = "to_pt"
     /\ heap[Recv.src].cls = last.cls
     /\ last.cls \in UnitClasses) =>
        LET s == heap[Recv.src]
            u == UnitOf(s.cls)
        IN  /\ Recv.cls = "PageSize"
            /\ NearestTo(W(Recv), W(s), RatioN(u), RatioD(u))
            /\ NearestTo(H(Recv), H(s), RatioN(u), RatioD(u))
            /\ Res.cls = s.cls
            /\ Res.width.unit = u
            /\ Res.height.unit = u
            /\ NearestTo(W(Res), W(Recv), RatioD(u), RatioN(u))
            /\ NearestTo(H(Res), H(Recv), RatioD(u), RatioN(u))
            /\ WithinUlp(W(s), W(Res))
            /\ WithinUlp(H(s), H(Res))

\* U.from_pt(U(w, h).to_pt()) was computed for a unit class U, and its width is
\* not exactly w.
C5_Witness ==
    /\ last.op = "from_pt"
    /\ ~last.err
    /\ Recv.by = "to_pt"
    /\ heap[Recv.src].cls = last.cls
    /\ last.cls \in UnitClasses
    /\ heap[Recv.src].by = "new"
    /\ W(heap[Recv.src]) = FromInt(inp.w)
    /\ W(Res) # W(heap[Recv.src])

\* C6: for a PageSize p, p.X.to_pt() is a PageSize whose fields are those of p
\* up to rounding, for the accessor X of every unit; two reads of the accessor
\* on the same p give equal sizes.
C6_AccessorRoundTrip ==
    /\ (last.op = "to_pt" /\ Recv.by = "accessor") =>
          LET p == heap[Recv.src]
          IN  /\ Res.cls = "PageSize"
              /\ WithinUlp(W(p), W(Res))
              /\ WithinUlp(H(p), H(Res))
    /\ \A i, j \in DOMAIN heap :
          (heap[i].by = "accessor" /\ heap[j].by = "accessor"
              /\ heap[i].src = heap[j].src) =>
             (SizeEq(heap[i], heap[j]) /\ heap[i].cls = heap[j].cls)

\* p.X.to_pt() was computed for a PageSize p, and its width is not exactly p's.
C6_Witness ==
    /\ last.op = "to_pt"
    /\ Recv.by = "accessor"
    /\ heap[Recv.src].by = "new"
    /\ heap[Recv.src].cls = "PageSize"
    /\ W(Res) # W(heap[Recv.src])

\* The numbers the run constructs its sizes from.
InW == FromInt(inp.w)
InH == FromInt(inp.h)

\* s was constructed as U(w, h) and stores the two inputs.
Verbatim(s) == s.by = "new" /\ W(s) = InW /\ H(s) = InH

\* C7: equality of sizes is equality of the (width, height) tuples, whatever the
\* classes: two sizes of different classes constructed from the same numbers
\* are equal, though they stand for different lengths.  (The second conjunct
\* takes every pair of classes on the numbers of the run, before any call.)
C7_RawEquality ==
    /\ last.op = "eq" =>
          /\ last.val <=> (W(Recv) = W(heap[last.arg]) /\ H(Recv) = H(heap[last.arg]))
          /\ (Verbatim(Recv) /\ Verbatim(heap[last.arg])) => last.val
    /\ heap = <<>> =>
          \A c1, c2 \in AllClasses :
             SizeEq(Construct(c1, InW, InH), Construct(c2, InW, InH))

\* A size of a unit class and a PageSize built from the same two numbers were
\* compared and found equal, though their widths in points differ.
C7_Witness ==
    /\ last.op = "eq"
    /\ last.val
    /\ Verbatim(Recv)
    /\ Verbatim(heap[last.arg])
    /\ Recv.cls \in UnitClasses
    /\ heap[last.arg].cls = "PageSize"
    /\ as_pt(Recv.width) # as_pt(heap[last.arg].width)

\* C8: PageSize(w, h, unit) with a unit other than the point stores w and h
\* multiplied by that unit's ratio, as points; PageSize(w, h) stores w and h
\* unconverted; every other class U stores U(w, h) unconverted in U's unit.
C8_Construction ==
    last.op = "new" =>
        /\ Res.cls = last.cls
        /\ Res.width.unit = UnitOf(last.cls)
        /\ Res.height.unit = UnitOf(last.cls)
        /\ IF last.cls = "PageSize" /\ last.unit # "pt"
           THEN /\ NearestTo(W(Res), InW, RatioN(last.unit), RatioD(last.unit))
                /\ NearestTo(H(Res), InH, RatioN(last.unit), RatioD(last.unit))
                /\ W(Res) = FMul(InW, RatioN(last.unit), RatioD(last.unit))
                /\ H(Res) = FMul(InH, RatioN(last.unit), RatioD(last.unit))
           ELSE W(Res) = InW /\ H(Res) = InH

\* PageSize(1, 2, inch) was constructed and stores (72, 144) points.
C8_Witness ==
    /\ last.op = "new"
    /\ last.cls = "PageSize"
    /\ last.unit = "inch"
    /\ inp.w = 1
    /\ inp.h = 2
    /\ W(Res) = FromInt(72)
    /\ H(Res) = FromInt(144)
    /\ Res.width.unit = "pt"

\* C9: the accessor of a unit on a PageSize p returns a size of that unit's
\* class whose fields are p's point values divided by the unit's ratio; so
\* p.inch is (w / 72, h / 72), and PageSize(72, 144).inch is (1, 2).
C9_Accessor ==
    last.op = "accessor" =>
        /\ last.new
        /\ Recv.cls = "PageSize"
        /\ Res.cls = SizeClass(inp.unit)
        /\ Res.width.unit = inp.unit
        /\ Res.height.unit = inp.unit
        /\ NearestTo(W(Res), W(Recv), RatioD(inp.unit), RatioN(inp.unit))
        /\ NearestTo(H(Res), H(Recv), RatioD(inp.unit), RatioN(inp.unit))
        /\ inp.unit = "inch" =>
              /\ NearestTo(W(Res), W(Recv), 1, 72)
              /\ NearestTo(H(Res), H(Recv), 1, 72)
              /\ (W(Recv) = FromInt(72) /\ H(Recv) = FromInt(144)) =>
                    (W(Res) = FromInt(1) /\ H(Res) = FromInt(2))

\* The inch accessor was read on a PageSize of (72, 144) points and gave (1, 2).
C9_Witness ==
    /\ last.op = "accessor"
    /\ inp.unit = "inch"
    /\ W(Recv) = FromInt(72)
    /\ H(Recv) = FromInt(144)
    /\ Res.cls = "Size_inch"
    /\ W(Res) = FromInt(1)
    /\ H(Res) = FromInt(2)

\* C10: no size is mutated after construction: no call changes the class, the
\* width or the height of a size that exists, and no size disappears.
C10_Immutable ==
    [][/\ Len(heap') >= Len(heap)
       /\ \A i \in DOMAIN heap :
             /\ heap'[i].cls = heap[i].cls
             /\ heap'[i].width = heap[i].width
             /\ heap'[i].height = heap[i].height]_vars

\* A size that is not square was the receiver of a call that constructed a
\* second size, and still stores the numbers it was constructed from.
C10_Witness ==
    /\ Len(heap) = 2
    /\ last.new
    /\ last.recv = 1
    /\ last.op \in {"landscape", "portrait", "to_pt", "from_pt", "from_size", "accessor"}
    /\ heap[2].src = 1
    /\ Verbatim(heap[1])
    /\ inp.w # inp.h

(***************************************************************************)
(* The state of the page sizes while another module of the package is at   *)
(* work: no size is constructed.                                           *)
(***************************************************************************)
NoSizes ==
    /\ inp = [unit |-> "pt", w |-> 1, h |-> 1]
    /\ heap = <<>>
    /\ last = NoCall
    /\ cap = 0

(***************************************************************************)
(* domdf_python_tools.terminal.  A string is a sequence of characters, a   *)
(* text stream is the string written to it so far.                         *)
(***************************************************************************)
\* Bounds: the number of positional objects of a call, the largest console
\* dimension.
MaxObjs == 2
MaxDim == 3

\* The objects that are printed: strings and integers.
Objs == {[kind |-> "str", v |-> <<"a">>, n |-> 0],
         [kind |-> "str", v |-> <<"b", "c">>, n |-> 0],
         [kind |-> "int", v |-> <<>>, n |-> 17]}
Seps == {<<" ">>, <<",">>}
Ends == {<<>>, <<"\n">>}

RECURSIVE Digits(_)
Digits(n) ==
    LET d == <<"0", "1", "2", "3", "4", "5", "6", "7", "8", "9">>[(n % 10) + 1]
    IN  IF n < 10 THEN <<d>> ELSE Digits(n \div 10) \o <<d>>

\* str(o)
Str(o) == IF o.kind = "int" THEN Digits(o.n) ELSE o.v

\* print(*objects, sep=sep, end=end, file=file): what is written to the file.
RECURSIVE Joined(_, _)
Joined(strs, sep) ==
    IF Len(strs) = 0 THEN <<>>
    ELSE IF Len(strs) = 1 THEN strs[1]
    ELSE strs[1] \o sep \o Joined(Tail(strs), sep)

print(objects, sep, end) == Joined(objects, sep) \o end

\* object0 = f"\r{objects[0]}" raises IndexError on an empty tuple.
overtype_raises(objects) == Len(objects) = 0

\* objects = (object0, *objects[1:]), every object as print converts it.
overtype_objects(objects) ==
    <<<<"\r">> \o Str(objects[1])>> \o [i \in 1 .. Len(objects) - 1 |-> Str(objects[i + 1])]

TupleOf(S, n) == UNION {[1 .. k -> S] : k \in 0 .. n}

overtype(objects, sep, end) ==
    /\ term = NoTerm
    /\ term' = IF overtype_raises(objects)
               THEN [op |-> "overtype", objects |-> objects, sep |-> sep, end |-> end,
                     err |-> "IndexError", stream |-> <<>>]
               ELSE [op |-> "overtype", objects |-> objects, sep |-> sep, end |-> end,
                     err |-> "none",
                     stream |-> print(overtype_objects(objects), sep, end)]
    /\ UNCHANGED <<inp, heap, last, cap, ver, fs>>

\* A probe that found no size returns None.
None == <<>>
Dims == 2 .. MaxDim
Probes == {None} \cup (Dims \X Dims)

\* The platforms of platform.system().
Systems == {"Windows", "Linux", "Darwin", "CYGWIN_NT-10.0", "Java"}

\* A command run by subprocess.check_call: its exit code and what it printed.
Commands == [code : {0, 1}, out : Dims]

\* _get_terminal_size_windows: the size of the console screen buffer window,
\* None when the call fails or raises.  csbi: None or <<size_x, size_y>>.
get_terminal_size_windows(csbi) == csbi

\* subprocess.check_call(cmd): the return code of a command that succeeded;
\* CalledProcessError for any other.
check_call_raises(cmd) == cmd.code # 0
check_call(cmd) == cmd.code

\* _get_terminal_size_tput
get_terminal_size_tput(cols, lines) ==
    IF check_call_raises(cols) \/ check_call_raises(lines) THEN None
    ELSE <<check_call(cols), check_call(lines)>>

\* _get_terminal_size_linux: cr is (rows, columns) from the ioctl on the
\* standard streams, else on the controlling terminal, else LINES and COLUMNS
\* of the environment; returned as (columns, rows).
get_terminal_size_linux(ioctl, ctty, environ) ==
    LET cr == IF ioctl # None THEN ioctl
              ELSE IF ctty # None THEN ctty
              ELSE environ
    IN  IF cr = None THEN None ELSE <<cr[2], cr[1]>>

startswith_CYGWIN(name) == name \in {"CYGWIN_NT-10.0"}

get_terminal_size_of(e) ==
    LET xy1 == IF e.os = "Windows"
               THEN IF get_terminal_size_windows(e.csbi) = None
                    THEN get_terminal_size_tput(e.cols, e.lines)
                    ELSE get_terminal_size_windows(e.csbi)
               ELSE None
        xy2 == IF e.os \in {"Linux", "Darwin"} \/ startswith_CYGWIN(e.os)
               THEN get_terminal_size_linux(e.ioctl, e.ctty, e.environ)
               ELSE xy1
    IN  IF xy2 = None THEN <<80, 25>> ELSE xy2

\* The environments a call can find.  The probes of the other platform are not
\* made, and are None.
Environments ==
    {e \in [os : Systems, csbi : Probes, cols : Commands, lines : Commands,
            ioctl : Probes, ctty : {None}, environ : Probes] :
        /\ e.os = "Windows" => e.ioctl = None /\ e.environ = None
        /\ e.os # "Windows" => e.csbi = None /\ e.cols.code = 1 /\ e.lines.code = 1
                               /\ e.cols.out = 2 /\ e.lines.out = 2
        /\ e.csbi # None => e.cols.code = 1 /\ e.lines.code = 1}

get_terminal_size(e) ==
    /\ term = NoTerm
    /\ term' = [op |-> "get_terminal_size", env |-> e, size |-> get_terminal_size_of(e)]
    /\ UNCHANGED <<inp, heap, last, cap, ver, fs>>

InitTerm == NoSizes /\ term = NoTerm /\ ver = NoVer /\ fs = NoFs

NextTerm ==
    \/ \E objects \in TupleOf(Objs, MaxObjs), sep \in Seps, end \in Ends :
          overtype(objects, sep, end)
    \/ \E e \in Environments : get_terminal_size(e)

SpecTerm == InitTerm /\ [][NextTerm]_vars

\* C11: overtype() with no positional objects writes just the carriage return
\* followed by end and raises nothing; with objects it writes the carriage
\* return, the objects joined by sep, and end.
C11_Overtype ==
    term.op = "overtype" =>
        /\ term.err = "none"
        /\ term.stream = <<"\r">>
                \o Joined([i \in 1 .. Len(term.objects) |-> Str(term.objects[i])], term.sep)
                \o term.end

\* C12: on Windows, when the console probe yields no size and both tput
\* commands succeed, get_terminal_size returns the columns and lines that tput
\* reported.
C12_TputSize ==
    (/\ term.op = "get_terminal_size"
     /\ term.env.os = "Windows"
     /\ term.env.csbi = None
     /\ term.env.cols.code = 0
     /\ term.env.lines.code = 0)
        => term.size = <<term.env.cols.out, term.env.lines.out>>

(***************************************************************************)
(* domdf_python_tools.versions.  A value is an int (items = <<n>>), a      *)
(* float with one decimal digit (items = <<i, d>> for i.d), a string       *)
(* (chars), or a tuple, a list or a Version (items).                       *)
(***************************************************************************)
\* Bounds: the largest component of a version, the longest operand.
MaxComp == 2
MaxLen == 4

Comps == 1 .. MaxComp

int_value(n) == [kind |-> "int", items |-> <<n>>, chars |-> <<>>]
float_value(i, d) == [kind |-> "float", items |-> <<i, d>>, chars |-> <<>>]
str_value(cs) == [kind |-> "str", items |-> <<>>, chars |-> cs]
seq_value(k, t) == [kind |-> k, items |-> t, chars |-> <<>>]

\* str(x) of an int and of a float
str(x) ==
    IF x.kind = "int" THEN Digits(x.items[1])
    ELSE IF x.kind = "float" THEN Digits(x.items[1]) \o <<".">> \o Digits(x.items[2])
    ELSE x.chars

\* version_string.split(".")
RECURSIVE split(_)
split(cs) ==
    IF \A i \in DOMAIN cs : cs[i] # "." THEN <<cs>>
    ELSE LET k == CHOOSE i \in DOMAIN cs :
                      cs[i] = "." /\ \A j \in 1 .. i - 1 : cs[j] # "."
         IN  <<SubSeq(cs, 1, k - 1)>> \o split(SubSeq(cs, k + 1, Len(cs)))

digit(c) == CHOOSE d \in 0 .. 9 : Digits(d) = <<c>>

\* int(x) of a string of decimal digits
RECURSIVE int_str(_)
int_str(cs) ==
    IF Len(cs) = 1 THEN digit(cs[1])
    ELSE 10 * int_str(SubSeq(cs, 1, Len(cs) - 1)) + digit(cs[Len(cs)])

\* int(x): of an int itself, of a float its integral part.
int(x) == IF x.kind = "str" THEN int_str(x.chars) ELSE x.items[1]

\* _iter_string
iter_string(cs) == [i \in 1 .. Len(split(cs)) |-> int_str(split(cs)[i])]

\* _iter_float
iter_float(x) == iter_string(str(x))

\* _prep_for_eq
prep_for_eq(other) ==
    IF other.kind = "str" THEN iter_string(other.chars)
    ELSE IF other.kind \in {"Version", "tuple", "list"} THEN other.items
    ELSE iter_float(other)

\* Comparison of plain tuples: element by element, then by length.
Min(a, b) == IF a <= b THEN a ELSE b
Prefix(t, n) == SubSeq(t, 1, Min(n, Len(t)))

tuple_lt(a, b) ==
    LET n == Min(Len(a), Len(b))
        same == \A i \in 1 .. n : a[i] = b[i]
        k == CHOOSE i \in 1 .. n : a[i] # b[i] /\ \A j \in 1 .. i - 1 : a[j] = b[j]
    IN  IF same THEN Len(a) < Len(b) ELSE a[k] < b[k]

tuple_le(a, b) == a = b \/ tuple_lt(a, b)

\* Version.__new__(cls, major=0, minor=0, patch=0): the tuple and the three
\* attributes of the instance.
\* Variant: the minor attribute is set from patch.
Version_new_minor_is_patch(major, minor, patch) ==
    [tup |-> <<int(major), int(minor), int(patch)>>,
     major |-> int(major), minor |-> int(patch), patch |-> int(patch)]

Version_new(major, minor, patch) ==
    [tup |-> <<int(major), int(minor), int(patch)>>,
     major |-> int(major), minor |-> int(minor), patch |-> int(patch)]

\* The call with the first positional arguments given.
Version_call(args) ==
    LET a(i) == IF i <= Len(args) THEN args[i] ELSE int_value(0)
    IN  Version_new(a(1), a(2), a(3))

\* Version.__getnewargs__: tuple(self)
getnewargs(v) == seq_value("tuple", v.tup)

\* copy and pickle rebuild the instance as Version.__new__(Version, *args).
rebuilt(args) ==
    Version_new(int_value(args.items[1]), int_value(args.items[2]), int_value(args.items[3]))

\* Version.__eq__
\* Variant: the whole tuples are compared.
Version_eq_whole(v, other) == v.tup = prep_for_eq(other)

Version_eq(v, other) ==
    LET o == prep_for_eq(other)
        shortest == Min(Len(v.tup), Len(o))
    IN  SubSeq(v.tup, 1, shortest) = SubSeq(o, 1, shortest)

\* Version defines no __ne__: v != other is tuple.__ne__, which compares the
\* elements with those of a tuple and returns NotImplemented for anything
\* else; the operands are then unequal because they are not the same object.
Version_ne(v, other) ==
    IF other.kind \in {"tuple", "Version"} THEN v.tup # other.items ELSE TRUE

\* Version.__gt__, __lt__, __ge__, __le__
Version_gt(v, other) == tuple_lt(prep_for_eq(other), v.tup)
Version_lt(v, other) == tuple_lt(v.tup, prep_for_eq(other))
Version_ge(v, other) ==
    tuple_le(prep_for_eq(other), Prefix(v.tup, Len(prep_for_eq(other))))
Version_le(v, other) ==
    tuple_le(Prefix(v.tup, Len(prep_for_eq(other))), prep_for_eq(other))

\* The arguments of Version(...): ints, strings of digits, floats.
VersionArgs ==
    {int_value(n) : n \in Comps} \cup {str_value(Digits(n)) : n \in Comps}
        \cup {float_value(n, 5) : n \in Comps}

\* The operands of the comparisons.
TuplesTo(n) == UNION {[1 .. k -> Comps] : k \in 0 .. n}
dotted(t) == Joined([i \in 1 .. Len(t) |-> Digits(t[i])], <<".">>)

Operands ==
    {seq_value("tuple", t) : t \in TuplesTo(MaxLen)}
        \cup {seq_value("list", t) : t \in TuplesTo(MaxLen)}
        \cup {str_value(dotted(t)) : t \in TuplesTo(MaxLen) \ {<<>>}}
        \cup {int_value(n) : n \in Comps}
        \cup {float_value(i, d) : i \in Comps, d \in 0 .. MaxComp}
        \cup {seq_value("Version", t) : t \in [1 .. 3 -> 0 .. MaxComp]}

NoOperand == seq_value("none", <<>>)

\* The record of a call on the version v: the operation, its operand, the
\* boolean it returned, the tuple __getnewargs__ returned, the rebuilt copy.
VerCall(op, v, o, res, args, copy) ==
    [op |-> op, v |-> v, o |-> o, res |-> res, args |-> args, copy |-> copy]

VerIdle == ver # NoVer /\ ver.op = "new"

Compared(op, o, res) ==
    /\ VerIdle
    /\ ver' = VerCall(op, ver.v, o, res, NoOperand, ver.v)
    /\ UNCHANGED <<inp, heap, last, cap, term, fs>>

CallVersion(args) ==
    /\ ver = NoVer
    /\ ver' = VerCall("new", Version_call(args), NoOperand, FALSE, NoOperand, Version_call(args))
    /\ UNCHANGED <<inp, heap, last, cap, term, fs>>

CallGetnewargs ==
    /\ VerIdle
    /\ ver' = VerCall("getnewargs", ver.v, NoOperand, FALSE, getnewargs(ver.v), ver.v)
    /\ UNCHANGED <<inp, heap, last, cap, term, fs>>

\* copy.copy(v), pickle.loads(pickle.dumps(v))
CallCopy ==
    /\ VerIdle
    /\ ver' = VerCall("copy", ver.v, NoOperand, FALSE, getnewargs(ver.v),
                      rebuilt(getnewargs(ver.v)))
    /\ UNCHANGED <<inp, heap, last, cap, term, fs>>

CallEq(o) == Compared("eq", o, Version_eq(ver.v, o))
CallNe(o) == Compared("ne", o, Version_ne(ver.v, o))
CallGt(o) == Compared("gt", o, Version_gt(ver.v, o))
CallLt(o) == Compared("lt", o, Version_lt(ver.v, o))
CallGe(o) == Compared("ge", o, Version_ge(ver.v, o))
CallLe(o) == Compared("le", o, Version_le(ver.v, o))

\* The caller takes the result; the version is compared again.
VerReturn ==
    /\ ver # NoVer
    /\ ver.op \notin {"new", "none"}
    /\ ver' = VerCall("new", ver.v, NoOperand, FALSE, NoOperand, ver.v)
    /\ UNCHANGED <<inp, heap, last, cap, term, fs>>

InitVer == NoSizes /\ term = NoTerm /\ ver = NoVer /\ fs = NoFs

NextVer ==
    \/ \E args \in UNION {[1 .. k -> VersionArgs] : k \in 0 .. 3} : CallVersion(args)
    \/ CallGetnewargs
    \/ CallCopy
    \/ VerIdle /\ \E o \in Operands : CallEq(o)
    \/ VerIdle /\ \E o \in Operands : CallNe(o)
    \/ VerIdle /\ \E o \in Operands : CallGt(o)
    \/ VerIdle /\ \E o \in Operands : CallLt(o)
    \/ VerIdle /\ \E o \in Operands : CallGe(o)
    \/ VerIdle /\ \E o \in Operands : CallLe(o)
    \/ VerReturn

SpecVer == InitVer /\ [][NextVer]_vars

\* C13: a Version is a triple that survives copy and pickle: its attributes
\* are its elements, __getnewargs__ returns the plain tuple (major, minor,
\* patch), and the instance rebuilt from it has the same elements and the same
\* attributes.
C13_GetNewArgs ==
    ver.op # "none" =>
        /\ ver.v.major = ver.v.tup[1] /\ ver.v.minor = ver.v.tup[2] /\ ver.v.patch = ver.v.tup[3]
        /\ ver.op = "getnewargs" =>
              ver.args = seq_value("tuple", <<ver.v.major, ver.v.minor, ver.v.patch>>)
        /\ ver.op = "copy" =>
              /\ ver.copy.tup = ver.v.tup
              /\ ver.copy.major = ver.v.major
              /\ ver.copy.minor = ver.v.minor
              /\ ver.copy.patch = ver.v.patch

\* A Version of three different components, Version(1, 2) with the default
\* patch, was copied.
C13_Witness ==
    /\ ver.op = "copy"
    /\ ver.v.tup = <<1, 2, 0>>
    /\ ver.copy.tup = <<1, 2, 0>>

\* C17: for every operand, v != o is the negation of v == o.
C17_NeNegatesEq ==
    /\ ver.op = "ne" => ver.res = ~Version_eq(ver.v, ver.o)
    /\ ver.op = "eq" => ver.res = ~Version_ne(ver.v, ver.o)

\* C18: the ordering of a Version agrees with its equality for operands of
\* every length: >= is (> or ==), <= is (< or ==), and at most one of <, ==, >
\* holds.
C18_Ordering ==
    ver.op \in {"eq", "lt", "gt", "le", "ge"} =>
        LET e == Version_eq(ver.v, ver.o)
            l == Version_lt(ver.v, ver.o)
            g == Version_gt(ver.v, ver.o)
        IN  /\ Version_ge(ver.v, ver.o) <=> (g \/ e)
            /\ Version_le(ver.v, ver.o) <=> (l \/ e)
            /\ ~(l /\ e) /\ ~(e /\ g) /\ ~(l /\ g)

\* The version string of every integer tuple.
Dotted == [t \in TuplesTo(MaxLen) |-> dotted(t)]

\* v and the integer tuple t agree on their first min(3, len(t)) components.
SharedPrefix(v, t) == \A i \in 1 .. Min(3, Len(t)) : v.tup[i] = t[i]

\* C19: equality compares the shared prefix only: with the operand normalised
\* to an integer tuple t (a string split on the dots, a sequence element by
\* element, an int or a float through its decimal string), v == o holds iff
\* the first min(3, len(t)) components of v and t are equal.
C19_PrefixEq ==
    ver.op = "eq" =>
        /\ ver.o.kind \in {"tuple", "list"} => ver.res = SharedPrefix(ver.v, ver.o.items)
        /\ ver.o.kind = "str" =>
              /\ \E t \in [1 .. (Len(ver.o.chars) + 1) \div 2 -> Comps] :
                    ver.o.chars = Dotted[t]
              /\ \A t \in [1 .. (Len(ver.o.chars) + 1) \div 2 -> Comps] :
                    ver.o.chars = Dotted[t] => ver.res = SharedPrefix(ver.v, t)
        /\ ver.o.kind = "Version" => ver.res = SharedPrefix(ver.v, ver.o.items)
        /\ ver.o.kind = "int" => ver.res = SharedPrefix(ver.v, <<ver.o.items[1]>>)
        /\ ver.o.kind = "float" => ver.res = SharedPrefix(ver.v, ver.o.items)
        /\ \A o \in {seq_value("tuple", <<1, 2>>), str_value(<<"1", ".", "2">>),
                     float_value(1, 2), int_value(1), seq_value("list", <<1, 2, 3, 9>>)} :
              Version_eq(Version_new(int_value(1), int_value(2), int_value(3)), o)

\* Version(1, 2, 1) == "1.2" returned True.
C19_Witness ==
    /\ ver.op = "eq"
    /\ ver.v.tup = <<1, 2, 1>>
    /\ ver.o = str_value(<<"1", ".", "2">>)
    /\ ver.res

(***************************************************************************)
(* domdf_python_tools.paths, as its tests use it.  A path is the sequence  *)
(* of its names below the temporary directory of the test, <<>> for that   *)
(* directory itself; its string is the names, each after a "/".  The file  *)
(* system gives every path a kind: "absent", "dir" or "file".              *)
(***************************************************************************)
\* Bounds: the longest path, the deepest nesting of with-blocks.
MaxDepth == 2
MaxNest == 2

Names == {"a", "b"}
Paths == UNION {[1 .. k -> Names] : k \in 0 .. MaxDepth}

parent(p) == SubSeq(p, 1, Len(p) - 1)

\* str(path), os.fspath(path)
RECURSIVE fspath(_)
fspath(p) ==
    IF Len(p) = 0 THEN <<"/">>
    ELSE IF Len(p) = 1 THEN <<"/", p[1]>>
    ELSE fspath(parent(p)) \o <<"/", p[Len(p)]>>

\* pathlib.Path(string): the names between the separators.
RECURSIVE Path(_)
Path(cs) ==
    IF Len(cs) = 0 THEN <<>>
    ELSE IF cs[1] = "/" THEN Path(Tail(cs))
    ELSE <<cs[1]>> \o Path(Tail(cs))

\* The arguments that name a path: a pathlib.Path, a PathPlus, a string.
PathKinds == {"Path", "PathPlus", "str"}
PathArg(k, p) == [kind |-> k, v |-> IF k = "str" THEN fspath(p) ELSE p]
as_path(arg) == IF arg.kind = "str" THEN Path(arg.v) ELSE arg.v

kind_of(tree, p) == IF p \in DOMAIN tree THEN tree[p] ELSE "absent"
exists(tree, p) == kind_of(tree, p) # "absent"
is_dir(tree, p) == kind_of(tree, p) = "dir"
is_file(tree, p) == kind_of(tree, p) = "file"

\* The temporary directory, empty.
EmptyTree == [p \in Paths |-> IF p = <<>> THEN "dir" ELSE "absent"]

FsResult(tree, err) == [tree |-> tree, err |-> err]

\* Path.mkdir(mode, parents, exist_ok=False)
RECURSIVE mkdir(_, _, _)
mkdir(tree, p, parents) ==
    IF exists(tree, p) THEN FsResult(tree, "FileExistsError")
    ELSE IF p \notin DOMAIN tree THEN FsResult(tree, "FileNotFoundError")
    ELSE IF is_dir(tree, parent(p)) THEN FsResult([tree EXCEPT ![p] = "dir"], "none")
    ELSE IF is_file(tree, parent(p)) THEN FsResult(tree, "NotADirectoryError")
    ELSE IF ~parents THEN FsResult(tree, "FileNotFoundError")
    ELSE LET up == mkdir(tree, parent(p), TRUE)
         IN  IF up.err = "none" THEN FsResult([up.tree EXCEPT ![p] = "dir"], "none")
             ELSE FsResult(tree, up.err)

\* Path.touch()
touch_of(tree, p) ==
    IF exists(tree, p) THEN FsResult(tree, "none")
    ELSE IF p \in DOMAIN tree /\ is_dir(tree, parent(p))
         THEN FsResult([tree EXCEPT ![p] = "file"], "none")
    ELSE FsResult(tree, "FileNotFoundError")

\* Path.rmdir()
rmdir_of(tree, p) ==
    IF ~exists(tree, p) THEN FsResult(tree, "FileNotFoundError")
    ELSE IF is_file(tree, p) THEN FsResult(tree, "NotADirectoryError")
    ELSE IF p = <<>> \/ \E q \in DOMAIN tree : q # <<>> /\ parent(q) = p /\ exists(tree, q)
         THEN FsResult(tree, "OSError")
    ELSE FsResult([tree EXCEPT ![p] = "absent"], "none")

\* maybe_make(directory, parents=False), PathPlus.maybe_make(parents=False):
\* makes the directory unless something exists at the path.
\* Variant: the directory is made without looking at what exists.
maybe_make_always_mkdir(tree, arg, parents) == mkdir(tree, as_path(arg), parents)

maybe_make_of(tree, arg, parents) ==
    IF exists(tree, as_path(arg)) THEN FsResult(tree, "none")
    ELSE mkdir(tree, as_path(arg), parents)

NoArg == [kind |-> "none", v |-> <<>>]

\* The file system, the working directory of the process, the working
\* directories saved by the open with-blocks, and the record of the last call:
\* the operation, its path argument, the file name it looks for, the error it
\* raised, the path it returned.  orig is the working directory at the start.
FsState(op, tree, arg, name, err, res, cwd, saved, orig) ==
    [op |-> op, tree |-> tree, arg |-> arg, name |-> name, err |-> err, res |-> res,
     cwd |-> cwd, saved |-> saved, orig |-> orig]

FsIdle == fs # NoFs /\ fs.op = "idle"

\* A call that works on the file system returns.
FsCalled(op, arg, r) ==
    /\ FsIdle
    /\ fs' = FsState(op, r.tree, arg, "", r.err, <<>>, fs.cwd, fs.saved, fs.orig)
    /\ UNCHANGED <<inp, heap, last, cap, term, ver>>

Touch(p) == FsCalled("touch", PathArg("Path", p), touch_of(fs.tree, p))

Rmdir(p) == FsCalled("rmdir", PathArg("Path", p), rmdir_of(fs.tree, p))

MaybeMake(k, p, parents) ==
    FsCalled("maybe_make", PathArg(k, p), maybe_make_of(fs.tree, PathArg(k, p), parents))

\* The caller goes on after the call.
FsReturn ==
    /\ fs # NoFs
    /\ fs.op \notin {"idle", "none"}
    /\ fs' = FsState("idle", fs.tree, NoArg, "", "none", <<>>, fs.cwd, fs.saved, fs.orig)
    /\ UNCHANGED <<inp, heap, last, cap, term, ver>>

InitFs ==
    /\ NoSizes /\ term = NoTerm /\ ver = NoVer
    /\ fs = FsState("idle", EmptyTree, NoArg, "", "none", <<>>, <<>>, <<>>, <<>>)

NextMake ==
    \/ FsIdle /\ \E p \in Paths : Touch(p)
    \/ FsIdle /\ \E p \in Paths : Rmdir(p)
    \/ FsIdle /\ \E k \in PathKinds, p \in Paths, parents \in BOOLEAN : MaybeMake(k, p, parents)
    \/ FsReturn

SpecMake == InitFs /\ [][NextMake]_vars

\* C14: maybe_make never destroys or replaces what is at a path: whatever the
\* state before, after maybe_make(p) with p's parent directory existing, p
\* exists; on an existing directory it changes nothing and raises nothing; on
\* an existing regular file it raises nothing and p is still a regular file;
\* for a pathlib.Path, a str and a PathPlus argument alike.
C14_MaybeMake ==
    [][fs'.op = "maybe_make" =>
         LET p == IF fs'.arg.kind = "str" THEN Path(fs'.arg.v) ELSE fs'.arg.v
         IN  /\ fs'.arg.kind \in PathKinds
             /\ \A q \in Paths : exists(fs.tree, q) => fs'.tree[q] = fs.tree[q]
             /\ is_dir(fs.tree, parent(p)) => exists(fs'.tree, p) /\ fs'.err = "none"
             /\ is_dir(fs.tree, p) => fs'.tree = fs.tree /\ fs'.err = "none"
             /\ is_file(fs.tree, p) => is_file(fs'.tree, p) /\ fs'.err = "none"]_vars

\* maybe_make was called with a string on a path where a regular file is, next
\* to a directory, and raised nothing.
C14_Witness ==
    /\ fs.op = "maybe_make"
    /\ fs.arg = PathArg("str", <<"a">>)
    /\ fs.tree[<<"a">>] = "file"
    /\ fs.tree[<<"b">>] = "dir"
    /\ fs.err = "none"

(***************************************************************************)
(* in_directory(directory): a context manager.  An open with-block is the  *)
(* working directory the manager saved (oldwd) and, for the properties,    *)
(* the working directory at the time of entry (entry).                     *)
(***************************************************************************)
\* The directories of the test: the temporary directory, a and a/a; b and a/b
\* are regular files.
DirTree ==
    [p \in Paths |->
        IF p \in {<<>>, <<"a">>, <<"a", "a">>} THEN "dir"
        ELSE IF p \in {<<"b">>, <<"a", "b">>} THEN "file"
        ELSE "absent"]

Dirs(tree) == {p \in DOMAIN tree : tree[p] = "dir"}

\* os.chdir(path)
chdir_error(tree, p) ==
    IF is_dir(tree, p) THEN "none"
    ELSE IF is_file(tree, p) THEN "NotADirectoryError"
    ELSE "FileNotFoundError"

\* oldwd = os.getcwd(), taken before the directory is changed.
\* Variant: oldwd is taken after the directory was changed.
in_directory_oldwd_after(cwd, d) == d

in_directory_oldwd(cwd, d) == cwd

\* Entry of "with in_directory(d):".  When os.chdir raises, the manager
\* changes back to oldwd and the block is not entered.
Enter(k, d) ==
    /\ FsIdle
    /\ Len(fs.saved) < MaxNest
    /\ LET arg == PathArg(k, d)
           err == chdir_error(fs.tree, as_path(arg))
           old == in_directory_oldwd(fs.cwd, as_path(arg))
       IN  fs' = IF err = "none"
                 THEN FsState("enter", fs.tree, arg, "", err, <<>>, as_path(arg),
                              Append(fs.saved, [oldwd |-> old, entry |-> fs.cwd]), fs.orig)
                 ELSE FsState("enter", fs.tree, arg, "", err, <<>>, old, fs.saved, fs.orig)
    /\ UNCHANGED <<inp, heap, last, cap, term, ver>>

\* The body of a with-block changes the working directory itself.
Chdir(d) ==
    /\ FsIdle
    /\ fs.saved # <<>>
    /\ is_dir(fs.tree, d)
    /\ fs' = FsState("chdir", fs.tree, PathArg("Path", d), "", "none", <<>>, d,
                     fs.saved, fs.orig)
    /\ UNCHANGED <<inp, heap, last, cap, term, ver>>

\* Exit of the innermost with-block: os.chdir(oldwd).  res: the working
\* directory at its entry.
Exit ==
    /\ FsIdle
    /\ fs.saved # <<>>
    /\ LET top == fs.saved[Len(fs.saved)]
       IN  fs' = FsState("exit", fs.tree, NoArg, "", "none", top.entry, top.oldwd,
                         SubSeq(fs.saved, 1, Len(fs.saved) - 1), fs.orig)
    /\ UNCHANGED <<inp, heap, last, cap, term, ver>>

InitDir ==
    /\ NoSizes /\ term = NoTerm /\ ver = NoVer
    /\ \E d \in Dirs(DirTree) :
          fs = FsState("idle", DirTree, NoArg, "", "none", <<>>, d, <<>>, d)

NextDir ==
    \/ FsIdle /\ \E k \in PathKinds, d \in Paths : Enter(k, d)
    \/ FsIdle /\ \E d \in Paths : Chdir(d)
    \/ Exit
    \/ FsReturn

SpecDir == InitDir /\ [][NextDir]_vars

\* C15: in_directory(d) makes d the working directory of the with-block, the
\* exit of the block restores the working directory that was current before
\* its entry, and whenever no block is open the working directory is the one
\* the process started with.
C15_InDirectory ==
    /\ (fs.op = "enter" /\ fs.err = "none") =>
          fs.cwd = (IF fs.arg.kind = "str" THEN Path(fs.arg.v) ELSE fs.arg.v)
    /\ fs.op = "exit" => fs.cwd = fs.res
    /\ fs.saved = <<>> => fs.cwd = fs.orig

\* The inner of two nested blocks was left: the working directory is again a,
\* the directory of the outer block, and not the one of the start.
C15_Witness ==
    /\ fs.op = "exit"
    /\ Len(fs.saved) = 1
    /\ fs.cwd = <<"a">>
    /\ fs.orig = <<>>

(***************************************************************************)
(* traverse_to_file(base_directory, filename)                              *)
(***************************************************************************)
NotFound(base, name) == <<"'", name, "' not found in ">> \o fspath(base)

\* The outcome of a search: the directory found, or the error and its message.
Found(d) == [err |-> "none", res |-> d]
Missing(base, name) == [err |-> "FileNotFoundError", res |-> NotFound(base, name)]

\* Variant: the parents are not searched.
traverse_base_only(tree, base, d, name) ==
    IF is_file(tree, d \o <<name>>) THEN Found(d) ELSE Missing(base, name)

\* The search from the directory d of the chain of base upwards.
RECURSIVE traverse_from(_, _, _, _)
traverse_from(tree, base, d, name) ==
    IF is_file(tree, d \o <<name>>) THEN Found(d)
    ELSE IF d = <<>> THEN Missing(base, name)
    ELSE traverse_from(tree, base, parent(d), name)

traverse_to_file_of(tree, base, name) == traverse_from(tree, base, base, name)

\* The arrangement of the tests: (tmp / location).parent.maybe_make(parents=True)
\* and (tmp / location).touch().
MakeParents(p) ==
    /\ FsIdle
    /\ fs' = [fs EXCEPT !.tree = maybe_make_of(fs.tree, PathArg("PathPlus", parent(p)), TRUE).tree]
    /\ UNCHANGED <<inp, heap, last, cap, term, ver>>

TouchFile(p) ==
    /\ FsIdle
    /\ fs' = [fs EXCEPT !.tree = touch_of(fs.tree, p).tree]
    /\ UNCHANGED <<inp, heap, last, cap, term, ver>>

Traverse(base, name) ==
    /\ FsIdle
    /\ LET r == traverse_to_file_of(fs.tree, base, name)
       IN  fs' = FsState("traverse_to_file", fs.tree, PathArg("PathPlus", base), name,
                         r.err, r.res, fs.cwd, fs.saved, fs.orig)
    /\ UNCHANGED <<inp, heap, last, cap, term, ver>>

NextTrav ==
    \/ FsIdle /\ \E p \in Paths : MakeParents(p)
    \/ FsIdle /\ \E p \in Paths : TouchFile(p)
    \/ FsIdle /\ \E base \in Paths, name \in Names : Traverse(base, name)
    \/ FsReturn

SpecTrav == InitFs /\ [][NextTrav]_vars

\* The directories searched: base and every parent of base.
Chain(base) == {SubSeq(base, 1, k) : k \in 0 .. Len(base)}

\* C16: traverse_to_file(base, name) returns the first directory, of base
\* itself and then its successive parents, that contains a file called name;
\* when none does, it raises FileNotFoundError, "'<name>' not found in <base>".
C16_Traverse ==
    fs.op = "traverse_to_file" =>
        LET base == fs.arg.v
            has == {d \in Chain(base) : is_file(fs.tree, d \o <<fs.name>>)}
        IN  IF has = {}
            THEN /\ fs.err = "FileNotFoundError"
                 /\ fs.res = <<"'", fs.name, "' not found in ">> \o fspath(base)
            ELSE /\ fs.err = "none"
                 /\ fs.res \in has
                 /\ \A d \in has : Len(d) <= Len(fs.res)

\* The file b is found two levels above the base a/b, whose parent a is a
\* directory that does not contain it.
C16_Witness ==
    /\ fs.op = "traverse_to_file"
    /\ fs.arg.v = <<"a", "b">>
    /\ fs.name = "b"
    /\ fs.tree[<<"a">>] = "dir"
    /\ fs.tree[<<"a", "b">>] = "absent"
    /\ fs.err = "none"
    /\ fs.res = <<>>

(***************************************************************************)
(* BaseSize.from_pt and what it is given: a PageSize, a size of another    *)
(* class, or a plain (width, height) tuple of numbers.                     *)
(***************************************************************************)
\* A plain tuple (w, h): its elements are numbers, not Units.
tuple_new(w, h) == [cls |-> "tuple", width |-> Unit("-", w), height |-> Unit("-", h)]

NewTuple ==
    /\ Returns_new("new", "tuple", 0, tuple_new(FromInt(inp.w), FromInt(inp.h)))
    /\ UNCHANGED <<inp, cap, term, ver, fs>>

NextFromPt ==
    \/ heap = <<>> /\ \E cls \in AllClasses : New(cls)
    \/ heap = <<>> /\ \E u \in UnitNames \cup {"pt"} : NewPageSize(u)
    \/ heap = <<>> /\ NewTuple
    \/ Idle /\ \E cls \in AllClasses, i \in 1 .. MaxHeap + 1 : from_pt(cls, i)
    \/ Return

SpecFromPt == Init /\ [][NextFromPt]_vars

====
